---- MODULE Spec2Model ----
(***************************************************************************)
(* A model of aiogtrans.aiohttpclient.AiohttpTranslator: the translate and *)
(* detect coroutines, their suspension points, the line framing of the     *)
(* batchexecute response and the decoding of the doubly encoded payload.   *)
(*                                                                         *)
(* A Python str is a sequence of one-character strings.  A Python value    *)
(* (what json.loads returns, what json.dumps takes) is a record whose      *)
(* field t names its Python type.                                          *)
(***************************************************************************)
EXTENDS Integers, Sequences, FiniteSets, TLC

QUOTE == "\""
BSLASH == "\\"
NEWLINE == "\n"

PyStr(s) == [t |-> "str", s |-> s]
PyList(a) == [t |-> "list", a |-> a]
PyInt(n) == [t |-> "int", n |-> n]
PyBool(b) == [t |-> "bool", b |-> b]
None == [t |-> "NoneType"]

DigitChars == <<"0", "1", "2", "3", "4", "5", "6", "7", "8", "9">>

(***************************************************************************)
(* json.dumps(obj, separators=(",", ":")) on strings, lists, ints, bools   *)
(* and None.                                                               *)
(***************************************************************************)
EscapeChar(c) ==
    IF c = QUOTE THEN <<BSLASH, QUOTE>>
    ELSE IF c = BSLASH THEN <<BSLASH, BSLASH>>
    ELSE IF c = NEWLINE THEN <<BSLASH, "n">>
    ELSE <<c>>

\* the escaped text, built by halves
RECURSIVE EscapeText(_)
EscapeText(s) ==
    IF Len(s) = 0 THEN <<>>
    ELSE IF Len(s) = 1 THEN EscapeChar(s[1])
    ELSE LET h == Len(s) \div 2
         IN  EscapeText(SubSeq(s, 1, h)) \o EscapeText(SubSeq(s, h + 1, Len(s)))

RECURSIVE DumpInt(_)
DumpInt(n) ==
    IF n < 10 THEN <<DigitChars[n + 1]>>
    ELSE DumpInt(n \div 10) \o <<DigitChars[(n % 10) + 1]>>

RECURSIVE JsonDumps(_)
RECURSIVE DumpItems(_)
JsonDumps(v) ==
    CASE v.t = "str" -> <<QUOTE>> \o EscapeText(v.s) \o <<QUOTE>>
      [] v.t = "list" -> <<"[">> \o DumpItems(v.a) \o <<"]">>
      [] v.t = "int" -> DumpInt(v.n)
      [] v.t = "bool" -> IF v.b THEN <<"t", "r", "u", "e">>
                         ELSE <<"f", "a", "l", "s", "e">>
      [] v.t = "NoneType" -> <<"n", "u", "l", "l">>

DumpItems(a) ==
    IF Len(a) = 0 THEN <<>>
    ELSE IF Len(a) = 1 THEN JsonDumps(a[1])
    ELSE JsonDumps(a[1]) \o <<",">> \o DumpItems(Tail(a))

(***************************************************************************)
(* json.loads on the JSON this model's bodies are written in: arrays,      *)
(* strings with the escapes \" \\ \/ \n \t, non-negative integers, true,   *)
(* false, null, and white space between tokens.  Anything else is a decode *)
(* error; no body of the model holds an object, a fraction, a sign or      *)
(* another escape.                                                         *)
(***************************************************************************)
DecodeError == [ok |-> FALSE, err |-> "JSONDecodeError"]

Whitespace == {" ", "\t", NEWLINE, "\r"}

RECURSIVE SkipSpace(_, _)
SkipSpace(s, i) ==
    IF i <= Len(s) /\ s[i] \in Whitespace THEN SkipSpace(s, i + 1) ELSE i

StartsAt(s, i, lit) ==
    /\ i + Len(lit) - 1 <= Len(s)
    /\ SubSeq(s, i, i + Len(lit) - 1) = lit

Unescape(c) ==
    CASE c = QUOTE -> QUOTE
      [] c = BSLASH -> BSLASH
      [] c = "/" -> "/"
      [] c = "n" -> NEWLINE
      [] c = "t" -> "\t"

\* the number of consecutive backslashes that end at position k
RECURSIVE BackslashRun(_, _)
BackslashRun(s, k) ==
    IF k >= 1 /\ s[k] = BSLASH THEN 1 + BackslashRun(s, k - 1) ELSE 0

\* a backslash that starts an escape; the character an escape ends with
Introducer(s, k) == s[k] = BSLASH /\ BackslashRun(s, k - 1) % 2 = 0
Escaped(s, k) == BackslashRun(s, k - 1) % 2 = 1

\* the first quote in lo..hi that no escape covers, 0 if there is none
RECURSIVE Closer(_, _, _)
Closer(s, lo, hi) ==
    IF lo > hi THEN 0
    ELSE IF lo = hi THEN IF s[lo] = QUOTE /\ ~Escaped(s, lo) THEN lo ELSE 0
    ELSE LET mid == (lo + hi) \div 2
             left == Closer(s, lo, mid)
         IN  IF left # 0 THEN left ELSE Closer(s, mid + 1, hi)

StringValue(s, i, end, kept) ==
    PyStr([k \in 1..Len(kept) |->
             IF Escaped(s, kept[k]) THEN Unescape(s[kept[k]]) ELSE s[kept[k]]])

\* the string whose opening quote is at i - 1
ScanString(s, i) ==
    LET end == Closer(s, i, Len(s))
        Kept(k) == ~Introducer(s, k)
    IN  IF end = 0 THEN DecodeError
        ELSE IF \E k \in i..(end - 1) :
                    \/ Escaped(s, k) /\ s[k] \notin {QUOTE, BSLASH, "/", "n", "t"}
                    \/ ~Escaped(s, k) /\ s[k] \in {NEWLINE, "\t"}
        THEN DecodeError
        ELSE [ok |-> TRUE,
              v |-> StringValue(s, i, end,
                                SelectSeq([k \in 1..(end - i) |-> i + k - 1], Kept)),
              i |-> end + 1]

DigitValue(c) == CHOOSE d \in 0..9 : DigitChars[d + 1] = c

IsDigit(c) == \E d \in 1..10 : DigitChars[d] = c

RECURSIVE ScanDigits(_, _, _)
ScanDigits(s, i, n) ==
    IF i <= Len(s) /\ IsDigit(s[i])
    THEN ScanDigits(s, i + 1, 10 * n + DigitValue(s[i]))
    ELSE [ok |-> TRUE, v |-> PyInt(n), i |-> i]

RECURSIVE ScanValue(_, _)
RECURSIVE ScanItems(_, _, _)
ScanValue(s, i0) ==
    LET i == SkipSpace(s, i0)
    IN  IF i > Len(s) THEN DecodeError
        ELSE IF s[i] = QUOTE THEN ScanString(s, i + 1)
        ELSE IF s[i] = "["
             THEN LET j == SkipSpace(s, i + 1)
                  IN  IF j <= Len(s) /\ s[j] = "]"
                      THEN [ok |-> TRUE, v |-> PyList(<<>>), i |-> j + 1]
                      ELSE ScanItems(s, j, <<>>)
        ELSE IF s[i] = "0" THEN [ok |-> TRUE, v |-> PyInt(0), i |-> i + 1]
        ELSE IF IsDigit(s[i]) THEN ScanDigits(s, i, 0)
        ELSE IF StartsAt(s, i, <<"t", "r", "u", "e">>)
             THEN [ok |-> TRUE, v |-> PyBool(TRUE), i |-> i + 4]
        ELSE IF StartsAt(s, i, <<"f", "a", "l", "s", "e">>)
             THEN [ok |-> TRUE, v |-> PyBool(FALSE), i |-> i + 5]
        ELSE IF StartsAt(s, i, <<"n", "u", "l", "l">>)
             THEN [ok |-> TRUE, v |-> None, i |-> i + 4]
        ELSE DecodeError

ScanItems(s, i, acc) ==
    LET r == ScanValue(s, i)
    IN  IF ~r.ok THEN DecodeError
        ELSE LET j == SkipSpace(s, r.i)
             IN  IF j > Len(s) THEN DecodeError
                 ELSE IF s[j] = "]"
                      THEN [ok |-> TRUE, v |-> PyList(Append(acc, r.v)), i |-> j + 1]
                 ELSE IF s[j] = ","
                      THEN ScanItems(s, j + 1, Append(acc, r.v))
                 ELSE DecodeError

JsonLoads(s) ==
    LET r == ScanValue(s, 1)
    IN  IF ~r.ok THEN DecodeError
        ELSE IF SkipSpace(s, r.i) = Len(s) + 1 THEN [ok |-> TRUE, v |-> r.v]
        ELSE DecodeError

(***************************************************************************)
(* Python subscription, iteration and truth on the values above.           *)
(***************************************************************************)
IndexError == [ok |-> FALSE, err |-> "IndexError"]
TypeError == [ok |-> FALSE, err |-> "TypeError"]

PyGetItem(v, i) ==
    IF v.t = "list"
    THEN IF i < Len(v.a) THEN [ok |-> TRUE, v |-> v.a[i + 1]] ELSE IndexError
    ELSE IF v.t = "str"
    THEN IF i < Len(v.s) THEN [ok |-> TRUE, v |-> PyStr(<<v.s[i + 1]>>)]
         ELSE IndexError
    ELSE TypeError

RECURSIVE PyPath(_, _)
PyPath(v, path) ==
    IF Len(path) = 0 THEN [ok |-> TRUE, v |-> v]
    ELSE LET r == PyGetItem(v, Head(path))
         IN  IF r.ok THEN PyPath(r.v, Tail(path)) ELSE r

PyIter(v) ==
    IF v.t = "list" THEN [ok |-> TRUE, items |-> v.a]
    ELSE IF v.t = "str"
    THEN [ok |-> TRUE, items |-> [k \in 1..Len(v.s) |-> PyStr(<<v.s[k]>>)]]
    ELSE TypeError

PyLen(v) == IF v.t = "list" THEN Len(v.a) ELSE Len(v.s)

Truthy(v) ==
    CASE v.t = "bool" -> v.b
      [] v.t = "int" -> v.n # 0
      [] v.t = "str" -> Len(v.s) > 0
      [] v.t = "list" -> Len(v.a) > 0
      [] v.t = "NoneType" -> FALSE

(***************************************************************************)
(* The framing loop of translate.                                          *)
(***************************************************************************)
RPC_ID == <<"M", "k", "E", "W", "B", "c">>

MarkerWindow == 30

Max(a, b) == IF a >= b THEN a ELSE b
Min(a, b) == IF a <= b THEN a ELSE b

Contains(s, sub) ==
    \E i \in 1..(Len(s) - Len(sub) + 1) : SubSeq(s, i, i + Len(sub) - 1) = sub

\* the marker looked for in the whole line
TokenAnywhere(line) == Contains(line, <<QUOTE>> \o RPC_ID \o <<QUOTE>>)

\* f'"{RPC_ID}"' in line[:30]
TokenInLine(line) ==
    Contains(SubSeq(line, 1, Min(MarkerWindow, Len(line))),
             <<QUOTE>> \o RPC_ID \o <<QUOTE>>)

\* the k-th smallest element of a set of numbers
Nth(S, k) == CHOOSE n \in S : Cardinality({m \in S : m < n}) = k - 1

\* data.split("\n")
SplitLines(data) ==
    LET breaks == {k \in 1..Len(data) : data[k] = NEWLINE}
        From(j) == IF j = 1 THEN 1 ELSE Nth(breaks, j - 1) + 1
        To(j) == IF j = Cardinality(breaks) + 1 THEN Len(data)
                 ELSE Nth(breaks, j) - 1
    IN  [j \in 1..(Cardinality(breaks) + 1) |-> SubSeq(data, From(j), To(j))]

\* what the characters lo..hi of a line do to the inner for loop: whether
\* they leave is_in_string flipped, and the brackets they count when
\* is_in_string is FALSE (outside) or TRUE (inside) before them.  A quote
\* flips unless its predecessor (the quote itself at index 0) is a backslash.
RECURSIVE Span(_, _, _)
Span(line, lo, hi) ==
    IF lo = hi
    THEN LET char == line[lo]
         IN  [flip |-> char = QUOTE /\ line[Max(1, lo - 1)] # BSLASH,
              outside |-> IF char = "[" THEN <<1, 0>>
                          ELSE IF char = "]" THEN <<0, 1>>
                          ELSE <<0, 0>>,
              inside |-> <<0, 0>>]
    ELSE LET mid == (lo + hi) \div 2
             a == Span(line, lo, mid)
             b == Span(line, mid + 1, hi)
             after_outside == IF a.flip THEN b.inside ELSE b.outside
             after_inside == IF a.flip THEN b.outside ELSE b.inside
         IN  [flip |-> a.flip # b.flip,
              outside |-> <<a.outside[1] + after_outside[1],
                            a.outside[2] + after_outside[2]>>,
              inside |-> <<a.inside[1] + after_inside[1],
                           a.inside[2] + after_inside[2]>>]

\* the inner for loop over one line (is_in_string starts FALSE), started with
\* counts = square_bracket_counts
ScanChars(line, counts) ==
    IF Len(line) = 0 THEN counts
    ELSE LET r == Span(line, 1, Len(line))
         IN  <<counts[1] + r.outside[1], counts[2] + r.outside[2]>>

\* the balance test passing only once a bracket has been counted
BalanceAfterBracket(counts) == counts[1] = counts[2] /\ counts[1] > 0

\* the test that ends the loop after a line has been appended
BalanceReached(counts) == counts[1] = counts[2]

FrameStart ==
    [token_found |-> FALSE, square_bracket_counts |-> <<0, 0>>, resp |-> <<>>,
     first |-> 0, last |-> 0, broke |-> FALSE]

\* the for loop over the lines; first, last and broke record the indexes of
\* the first and last line appended to resp and whether the loop left by break
RECURSIVE FrameLines(_, _, _)
FrameLines(lines, k, st) ==
    IF k > Len(lines) THEN st
    ELSE LET line == lines[k]
             found == st.token_found \/ TokenInLine(line)
         IN  IF ~found THEN FrameLines(lines, k + 1, st)
             ELSE LET counts == ScanChars(line, st.square_bracket_counts)
                      nxt == [token_found |-> TRUE,
                              square_bracket_counts |-> counts,
                              resp |-> st.resp \o line,
                              first |-> IF st.first = 0 THEN k ELSE st.first,
                              last |-> k,
                              broke |-> BalanceReached(counts)]
                  IN  IF BalanceReached(counts) THEN nxt
                      ELSE FrameLines(lines, k + 1, nxt)

Frame(data) == FrameLines(SplitLines(data), 1, FrameStart)

(***************************************************************************)
(* The decoding of the parsed payload into a Translated.                   *)
(***************************************************************************)
AUTO == <<"a", "u", "t", "o">>

IsAuto(v) == v.t = "str" /\ v.s = AUTO

\* lambda part: TranslatedPart(part[0], part[1] if len(part) >= 2 else [])
TranslatedPart(part) ==
    LET text == PyGetItem(part, 0)
    IN  IF ~text.ok THEN text
        ELSE [ok |-> TRUE,
              v |-> [text |-> text.v,
                     candidates |-> IF PyLen(part) >= 2
                                    THEN PyGetItem(part, 1).v
                                    ELSE PyList(<<>>)]]

RECURSIVE MapParts(_, _)
MapParts(items, acc) ==
    IF Len(items) = 0 THEN [ok |-> TRUE, parts |-> acc]
    ELSE LET p == TranslatedPart(Head(items))
         IN  IF p.ok THEN MapParts(Tail(items), Append(acc, p.v)) ELSE p

\* the separator chosen without looking at the flag
SeparatorAlways(should_spacing) == <<" ">>

Separator(should_spacing) == IF Truthy(should_spacing) THEN <<" ">> ELSE <<>>

\* sep.join(map(lambda part: part.text, translated_parts))
RECURSIVE Join(_, _)
Join(sep, parts) ==
    IF Len(parts) = 0 THEN [ok |-> TRUE, s |-> <<>>]
    ELSE IF parts[1].text.t # "str" THEN TypeError
    ELSE IF Len(parts) = 1 THEN [ok |-> TRUE, s |-> parts[1].text.s]
    ELSE LET rest == Join(sep, Tail(parts))
         IN  IF rest.ok
             THEN [ok |-> TRUE, s |-> parts[1].text.s \o sep \o rest.s]
             ELSE rest

\* the two guarded assignments to src
ResolveSource(src, parsed) ==
    LET r2 == PyGetItem(parsed, 2)
        s1 == IF IsAuto(src) /\ r2.ok THEN r2.v ELSE src
        r02 == PyPath(parsed, <<0, 2>>)
    IN  IF IsAuto(s1) /\ r02.ok THEN r02.v ELSE s1

Optional(r) == IF r.ok THEN r.v ELSE None

Decode(parsed, src, dest, origin) ==
    LET should_spacing == PyPath(parsed, <<1, 0, 0, 3>>)
        entries == PyPath(parsed, <<1, 0, 0, 5>>)
    IN  IF ~should_spacing.ok THEN should_spacing
        ELSE IF ~entries.ok THEN entries
        ELSE LET it == PyIter(entries.v)
             IN  IF ~it.ok THEN it
                 ELSE LET translated_parts == MapParts(it.items, <<>>)
                      IN  IF ~translated_parts.ok THEN translated_parts
                          ELSE LET translated ==
                                       Join(Separator(should_spacing.v),
                                            translated_parts.parts)
                               IN  IF ~translated.ok THEN translated
                                   ELSE [ok |-> TRUE,
                                         result |->
                                           [src |-> ResolveSource(PyStr(src), parsed),
                                            dest |-> dest,
                                            origin |-> origin,
                                            text |-> translated.s,
                                            pronunciation |->
                                              Optional(PyPath(parsed, <<1, 0, 0, 1>>)),
                                            parts |-> translated_parts.parts,
                                            origin_pronunciation |->
                                              Optional(PyPath(parsed, <<0, 0>>)),
                                            confidence |-> None]]

(***************************************************************************)
(* Language tags.  The three tables of aiogtrans.constants are cut down to *)
(* a few entries of each kind.                                             *)
(***************************************************************************)
UpperCase == <<"A", "B", "C", "D", "E", "F", "G", "H", "I", "J", "K", "L", "M",
               "N", "O", "P", "Q", "R", "S", "T", "U", "V", "W", "X", "Y", "Z">>
LowerCase == <<"a", "b", "c", "d", "e", "f", "g", "h", "i", "j", "k", "l", "m",
               "n", "o", "p", "q", "r", "s", "t", "u", "v", "w", "x", "y", "z">>

LowerChar(c) ==
    IF \E k \in 1..26 : UpperCase[k] = c
    THEN LowerCase[CHOOSE k \in 1..26 : UpperCase[k] = c]
    ELSE c

Lower(s) == [k \in 1..Len(s) |-> LowerChar(s[k])]

\* s.split("_", 1)[0]
BeforeUnderscore(s) ==
    IF \E k \in 1..Len(s) : s[k] = "_"
    THEN SubSeq(s, 1, (CHOOSE k \in 1..Len(s) :
                          s[k] = "_" /\ \A j \in 1..(k - 1) : s[j] # "_") - 1)
    ELSE s

Normalize(tag) == BeforeUnderscore(Lower(tag))

EN == <<"e", "n">>
FR == <<"f", "r">>
ET == <<"e", "t">>

LANGUAGES == {EN, FR, ET}
SPECIAL_CASES == [k \in {<<"e", "e">>} |-> ET]
LANGCODES == [k \in {<<"e", "n", "g", "l", "i", "s", "h">>, <<"f", "r", "e", "n", "c", "h">>} |->
                 IF k = <<"e", "n", "g", "l", "i", "s", "h">> THEN EN ELSE FR]

\* lines 210-216; src is already normalized
ResolveSrc(src) ==
    IF src # AUTO /\ src \notin LANGUAGES
    THEN IF src \in DOMAIN SPECIAL_CASES THEN [ok |-> TRUE, s |-> SPECIAL_CASES[src]]
         ELSE IF src \in DOMAIN LANGCODES THEN [ok |-> TRUE, s |-> LANGCODES[src]]
         ELSE [ok |-> FALSE, err |-> "ValueError: Invalid Source Language"]
    ELSE [ok |-> TRUE, s |-> src]

\* the destination lookup letting an unknown tag through
ResolveDestLenient(dest) ==
    IF dest \in DOMAIN SPECIAL_CASES THEN [ok |-> TRUE, s |-> SPECIAL_CASES[dest]]
    ELSE IF dest \in DOMAIN LANGCODES THEN [ok |-> TRUE, s |-> LANGCODES[dest]]
    ELSE [ok |-> TRUE, s |-> dest]

\* lines 218-224; dest is already normalized
ResolveDest(dest) ==
    IF dest \notin LANGUAGES
    THEN IF dest \in DOMAIN SPECIAL_CASES THEN [ok |-> TRUE, s |-> SPECIAL_CASES[dest]]
         ELSE IF dest \in DOMAIN LANGCODES THEN [ok |-> TRUE, s |-> LANGCODES[dest]]
         ELSE [ok |-> FALSE, err |-> "ValueError: Invalid Destination Language"]
    ELSE [ok |-> TRUE, s |-> dest]

(***************************************************************************)
(* The request encoder.                                                    *)
(***************************************************************************)
GENERIC == <<"g", "e", "n", "e", "r", "i", "c">>

\* json.dumps(obj=[[text, src, dest, True], [None]], separators=(",", ":"))
TransInfo(text, dest, src) ==
    JsonDumps(PyList(<<PyList(<<PyStr(text), PyStr(src), PyStr(dest), PyBool(TRUE)>>),
                       PyList(<<None>>)>>))

\* json.dumps(obj=[[[RPC_ID, trans_info, None, "generic"]]], separators=(",", ":"))
Rpc(trans_info) ==
    JsonDumps(PyList(<<PyList(<<PyList(<<PyStr(RPC_ID), PyStr(trans_info), None,
                                         PyStr(GENERIC)>>)>>)>>))

\* _pick_service_url: the hosts it may return
PickServiceUrl(urls) ==
    IF Len(urls) = 1 THEN {urls[1]} ELSE {urls[k] : k \in 1..Len(urls)}

(***************************************************************************)
(* State.  call[c] holds the locals of one translate (or detect) coroutine *)
(* and its position; raise_exception and service_urls are the client's     *)
(* fields; mode selects the input sets of the specification.               *)
(***************************************************************************)
VARIABLES call, raise_exception, service_urls, mode

vars == <<call, raise_exception, service_urls, mode>>

NumCalls == 2
MaxParts == 2
MaxPre == 1
MaxTrail == 1
MaxCuts == 3

OK == 200
Statuses == {OK, 500}

NoTranslated ==
    [src |-> None, dest |-> <<>>, origin |-> <<>>, text |-> <<>>,
     pronunciation |-> None, parts |-> <<>>, origin_pronunciation |-> None,
     confidence |-> None]

NoDetected == [lang |-> None, confidence |-> None, made |-> FALSE]

NoResponse == [status |-> 0, body |-> <<>>]

Idle ==
    [pc |-> "idle", detect |-> FALSE, args |-> [text |-> <<>>, dest |-> <<>>, src |-> <<>>],
     text |-> <<>>, dest |-> <<>>, src |-> <<>>, url |-> "", trans_info |-> <<>>,
     rpc |-> <<>>, posts |-> 0, response |-> NoResponse, read |-> FALSE,
     framed |-> FrameStart, payload |-> <<>>, parsed |-> None,
     result |-> NoTranslated, detected |-> NoDetected, err |-> ""]

Raised(r, e) == [r EXCEPT !.pc = "raised", !.err = e]

(***************************************************************************)
(* Inputs: the texts, the language tags and the response bodies.           *)
(***************************************************************************)
SeqsUpTo(S, n) == UNION {[1..k -> S] : k \in 0..n}

RECURSIVE JoinLines(_)
JoinLines(lines) ==
    IF Len(lines) = 0 THEN <<>>
    ELSE IF Len(lines) = 1 THEN lines[1]
    ELSE lines[1] \o <<NEWLINE>> \o JoinLines(Tail(lines))

WRB == <<"w", "r", "b", ".", "f", "r">>

Payload(p0, pron, spacing, parts, tail) ==
    PyList(<<p0,
             PyList(<<PyList(<<PyList(<<None, pron, None, spacing, None, parts>>)>>)>>)>>
           \o tail)

Envelope(first, id, payload) ==
    PyList(<<PyList(<<PyStr(first), PyStr(id), payload, None, PyStr(GENERIC)>>)>>)

Reply(parsed) == JsonDumps(Envelope(WRB, RPC_ID, PyStr(JsonDumps(parsed))))

EntryHi == PyList(<<PyStr(<<"H", "i">>)>>)
EntryYo == PyList(<<PyStr(<<"y", "o">>), PyList(<<PyStr(<<"x">>)>>)>>)
EntryBracket == PyList(<<PyStr(<<"b", "]", "\\">>), PyList(<<>>), None>>)
Entries == {EntryHi, EntryYo, EntryBracket}

Origins == {None, PyList(<<PyStr(<<"b", "o">>), None, PyStr(FR)>>), PyList(<<None>>)}
Tails == {<<>>, <<PyStr(ET)>>, <<None>>, <<PyStr(AUTO)>>}

DecodeBodies ==
    {Reply(Payload(p0, PyStr(<<"h", "i">>), PyBool(sp), PyList(ps), tail)) :
        p0 \in Origins, sp \in BOOLEAN, ps \in SeqsUpTo(Entries, MaxParts),
        tail \in Tails}

Plain == Payload(PyList(<<None, None, PyStr(FR)>>), None, PyBool(TRUE),
                 PyList(<<EntryHi, EntryYo>>), <<PyStr(FR)>>)

PlainReply == Reply(Plain)

\* PlainReply up to the end of its payload string
PlainHead ==
    <<"[", "[">> \o JsonDumps(PyStr(WRB)) \o <<",">> \o JsonDumps(PyStr(RPC_ID))
    \o <<",">> \o JsonDumps(PyStr(JsonDumps(Plain)))

OtherReply ==
    Reply(Payload(None, None, PyBool(FALSE), PyList(<<EntryYo>>), <<PyStr(ET)>>))

\* the position of the j-th comma of s
Comma(s, j) == Nth({k \in 1..Len(s) : s[k] = ","}, j)

CutAt(s, k) == <<SubSeq(s, 1, k), SubSeq(s, k + 1, Len(s))>>

Regions ==
    {<<PlainReply>>} \cup
    {CutAt(PlainReply, Comma(PlainReply, j)) : j \in 1..MaxCuts}

Decoy == [k \in 1..MarkerWindow |-> "x"] \o <<QUOTE>> \o RPC_ID \o <<QUOTE>>

PreLines == {<<")", "]", "}", "'">>, <<"[", "[", "\"", "d", "i", "\"", ",", "5", "9", "]", "]">>, Decoy}
TrailLines == {<<"2", "5">>, <<"[", "[", "\"", "e", "\"", ",", "4", "]", "]">>, <<"]">>}

FramingBodies ==
    {JoinLines(pre \o region \o trail) :
        pre \in SeqsUpTo(PreLines, MaxPre), region \in Regions,
        trail \in SeqsUpTo(TrailLines, MaxTrail)}

\* a reply whose first element has n characters: the marker starts at n + 6
Padded(n) ==
    JsonDumps(Envelope([k \in 1..n |-> "x"], RPC_ID, PyStr(JsonDumps(Plain))))

OddPayloads ==
    {Payload(None, None, None, PyList(<<EntryHi, EntryYo>>), <<>>),
     Payload(None, None, PyInt(1), PyList(<<EntryHi, EntryYo>>), <<>>),
     Payload(None, None, PyBool(TRUE), PyList(<<EntryHi, PyList(<<>>)>>), <<>>),
     Payload(None, None, PyBool(TRUE), PyList(<<PyList(<<None>>), EntryHi>>), <<>>),
     Payload(None, None, PyBool(TRUE), PyStr(<<"a", "b">>), <<>>),
     Payload(None, None, PyBool(TRUE), PyList(<<PyStr(<<"a", "b">>), EntryHi>>), <<>>),
     Payload(None, None, PyBool(TRUE), None, <<>>),
     Payload(PyStr(<<"a", "b", "c">>), None, PyBool(TRUE), PyList(<<EntryHi>>), <<>>),
     Payload(PyList(<<None, None, PyInt(7)>>), None, PyBool(FALSE),
             PyList(<<EntryHi>>), <<PyList(<<>>)>>),
     PyList(<<None>>), PyInt(0), PyStr(<<"x">>)}

OddBodies ==
    {Reply(p) : p \in OddPayloads} \cup
    {<<>>,
     JsonDumps(Envelope(WRB, <<"X", "k", "E", "W", "B", "c">>, PyStr(JsonDumps(Plain)))),
     Padded(MarkerWindow - 13), Padded(MarkerWindow - 12),
     JsonDumps(Envelope(WRB, RPC_ID, None)),
     JsonDumps(PyList(<<PyStr(RPC_ID)>>)),
     JsonDumps(PyStr(RPC_ID)),
     JoinLines(<<JsonDumps(PyStr(RPC_ID)), PlainReply>>),
     JoinLines(<<<<",", "\"", "M", "k", "E", "W", "B", "c", "\"", ",">>, PlainReply>>),
     PlainHead,
     JoinLines(<<PlainHead \o <<"]">>, <<"]">>, <<"2", "5">>>>),
     JsonDumps(Envelope(<<"w", "\\">>, RPC_ID, PyStr(JsonDumps(Plain)))),
     JoinLines(<<JsonDumps(Envelope(<<"w", "\\">>, RPC_ID, PyStr(JsonDumps(Plain)))), <<"2", "5">>>>),
     JoinLines(<<JsonDumps(Envelope(<<"[", "\\">>, RPC_ID, PyStr(JsonDumps(Plain)))), <<"2", "5">>>>),
     JoinLines(<<JsonDumps(Envelope(<<"w", "\\", "\"", "[">>, RPC_ID, PyStr(JsonDumps(Plain)))), <<"2", "5">>>>),
     JoinLines(<<JsonDumps(Envelope(<<"[", "n", "o", "t", "]">>, RPC_ID, PyStr(JsonDumps(Plain)))), <<"2", "5">>>>),
     JoinLines(<<PlainHead \o <<",", "\"", "a">>, <<"]", "b", "\"", "]", "]">>>>)}

TextA == <<"a">>
TextB == <<"b">>

Texts == {TextA}

DetectTexts == {TextB}

DestTags ==
    IF mode = "transport"
    THEN {EN, <<"E", "N", "_", "u", "s">>, <<"e", "e">>, <<"E", "n", "g", "l", "i", "s", "h">>, <<"z", "z">>, AUTO, <<"_", "f", "r">>}
    ELSE {EN}

SrcTags ==
    IF mode = "transport" THEN {AUTO, <<"F", "r">>, <<"f", "r", "e", "n", "c", "h">>, <<"z", "z">>, <<"A", "u", "t", "o", "_", "x">>}
    ELSE IF mode = "decode" THEN {AUTO, FR}
    ELSE {AUTO}

Bodies ==
    IF mode = "decode" THEN DecodeBodies \cup FramingBodies \cup OddBodies
    ELSE IF mode = "transport" THEN {PlainReply, <<>>}
    ELSE {PlainReply, OtherReply}

Host1 == "translate.google.com"
Host2 == "translate.google.co.kr"

(***************************************************************************)
(* The coroutine steps.  A step runs from one suspension point (an await   *)
(* that leaves the coroutine) to the next.                                 *)
(***************************************************************************)

\* translate, lines 207-227, into _translate up to the first executor await
Enter(c, text, dest, src, detect) ==
    LET s == ResolveSrc(Normalize(src))
        d == ResolveDest(Normalize(dest))
        r == [call[c] EXCEPT !.detect = detect,
                             !.args = [text |-> text, dest |-> dest, src |-> src]]
    IN  IF ~s.ok THEN call' = [call EXCEPT ![c] = Raised(r, s.err)]
        ELSE IF ~d.ok
        THEN call' = [call EXCEPT ![c] = Raised([r EXCEPT !.src = s.s], d.err)]
        ELSE \E host \in PickServiceUrl(service_urls) :
                call' = [call EXCEPT ![c] =
                            [r EXCEPT !.pc = "dumps_trans_info", !.text = text,
                                      !.src = s.s, !.dest = d.s, !.url = host]]

Translate(c) ==
    /\ call[c].pc = "idle"
    /\ \E text \in Texts, dest \in DestTags, src \in SrcTags :
          Enter(c, text, dest, src, FALSE)
    /\ UNCHANGED <<raise_exception, service_urls, mode>>

\* detect, line 313
Detect(c) ==
    /\ call[c].pc = "idle"
    /\ \E text \in DetectTexts : Enter(c, text, EN, AUTO, TRUE)
    /\ UNCHANGED <<raise_exception, service_urls, mode>>

\* _build_rpc_request, lines 114-119
DumpsTransInfo(c) ==
    /\ call[c].pc = "dumps_trans_info"
    /\ call' = [call EXCEPT ![c] =
                   [@ EXCEPT !.pc = "dumps_rpc",
                             !.trans_info = TransInfo(call[c].text, call[c].dest,
                                                      call[c].src)]]
    /\ UNCHANGED <<raise_exception, service_urls, mode>>

\* the encoded request kept in a field of the client that every call reads
DumpsRpcShared(c) ==
    /\ call[c].pc = "dumps_rpc"
    /\ call' = [d \in DOMAIN call |->
                   IF d = c
                   THEN [call[d] EXCEPT !.pc = "post",
                                        !.rpc = Rpc(call[c].trans_info),
                                        !.posts = @ + 1]
                   ELSE [call[d] EXCEPT !.rpc = Rpc(call[c].trans_info)]]
    /\ UNCHANGED <<raise_exception, service_urls, mode>>

\* _build_rpc_request, lines 120-137, and _translate up to session.post
DumpsRpc(c) ==
    /\ call[c].pc = "dumps_rpc"
    /\ call' = [call EXCEPT ![c] =
                   [@ EXCEPT !.pc = "post", !.rpc = Rpc(call[c].trans_info),
                             !.posts = @ + 1]]
    /\ UNCHANGED <<raise_exception, service_urls, mode>>

\* the status test with the toggle inverted
MustRaiseInverted(status) == status # OK /\ ~raise_exception

\* the test of line 167
MustRaise(status) == status # OK /\ raise_exception

\* the response arrives: _translate, lines 165-171
Respond(c) ==
    /\ call[c].pc = "post"
    /\ \E status \in Statuses, body \in Bodies :
          LET r == [call[c] EXCEPT !.response = [status |-> status, body |-> body]]
          IN  call' = [call EXCEPT ![c] =
                          IF MustRaise(status)
                          THEN Raised(r, "Exception: Unexpected status code")
                          ELSE [r EXCEPT !.pc = "text"]]
    /\ UNCHANGED <<raise_exception, service_urls, mode>>

\* request.text() returns: translate, lines 229-251
ReadText(c) ==
    /\ call[c].pc = "text"
    /\ call' = [call EXCEPT ![c] =
                   [@ EXCEPT !.pc = "loads_resp", !.read = TRUE,
                             !.framed = Frame(call[c].response.body)]]
    /\ UNCHANGED <<raise_exception, service_urls, mode>>

\* the argument of the second json.loads: data[0][2], which must be a str
PayloadOf(data) ==
    LET r == PyPath(data, <<0, 2>>)
    IN  IF ~r.ok THEN r
        ELSE IF r.v.t # "str" THEN TypeError
        ELSE [ok |-> TRUE, s |-> r.v.s]

\* json.loads(resp) returns: translate, lines 251-252
LoadsResp(c) ==
    /\ call[c].pc = "loads_resp"
    /\ LET data == JsonLoads(call[c].framed.resp)
           arg == PayloadOf(data.v)
       IN  call' = [call EXCEPT ![c] =
                       IF ~data.ok THEN Raised(call[c], data.err)
                       ELSE IF ~arg.ok
                       THEN Raised(call[c], arg.err)
                       ELSE [call[c] EXCEPT !.pc = "loads_payload",
                                            !.payload = arg.s]]
    /\ UNCHANGED <<raise_exception, service_urls, mode>>

\* Detected(lang=translated.src, ...), lines 314-318
Detected(translated) == [lang |-> translated.src, confidence |-> None, made |-> TRUE]

\* json.loads(data[0][2]) returns: translate, lines 252-307, and detect
LoadsPayload(c) ==
    /\ call[c].pc = "loads_payload"
    /\ LET parsed == JsonLoads(call[c].payload)
           d == Decode(parsed.v, call[c].src, call[c].dest, call[c].text)
       IN  call' = [call EXCEPT ![c] =
                       IF ~parsed.ok THEN Raised(call[c], parsed.err)
                       ELSE IF ~d.ok
                       THEN Raised([call[c] EXCEPT !.parsed = parsed.v], d.err)
                       ELSE [call[c] EXCEPT !.pc = "returned",
                                            !.parsed = parsed.v,
                                            !.result = d.result,
                                            !.detected =
                                               IF call[c].detect
                                               THEN Detected(d.result)
                                               ELSE NoDetected]]
    /\ UNCHANGED <<raise_exception, service_urls, mode>>

Next ==
    \/ \E c \in DOMAIN call : Translate(c)
    \/ \E c \in DOMAIN call : Detect(c)
    \/ \E c \in DOMAIN call : DumpsTransInfo(c)
    \/ \E c \in DOMAIN call : DumpsRpc(c)
    \/ \E c \in DOMAIN call : Respond(c)
    \/ \E c \in DOMAIN call : ReadText(c)
    \/ \E c \in DOMAIN call : LoadsResp(c)
    \/ \E c \in DOMAIN call : LoadsPayload(c)

\* two concurrent calls on one client
Init ==
    /\ mode = "concurrent"
    /\ call = [c \in 1..NumCalls |-> Idle]
    /\ raise_exception = TRUE
    /\ service_urls = <<Host1>>

\* one call, every language tag, one or two hosts
InitTransport ==
    /\ mode = "transport"
    /\ call = [c \in {1} |-> Idle]
    /\ raise_exception \in BOOLEAN
    /\ service_urls \in {<<Host1>>, <<Host1, Host2>>}

\* one call, every response body
InitDecode ==
    /\ mode = "decode"
    /\ call = [c \in {1} |-> Idle]
    /\ raise_exception = TRUE
    /\ service_urls = <<Host1>>

Spec == Init /\ [][Next]_vars
SpecTransport == InitTransport /\ [][Next]_vars
SpecDecode == InitDecode /\ [][Next]_vars

(***************************************************************************)
(* What the claims speak of, stated apart from the loop: the marker line,  *)
(* the reply region and the brackets a JSON reader sees outside strings.   *)
(***************************************************************************)
QuotedMarker == <<QUOTE>> \o RPC_ID \o <<QUOTE>>

MarkerAt(line, k) ==
    \A j \in 1..Len(QuotedMarker) :
        k + j - 1 <= Len(line) /\ line[k + j - 1] = QuotedMarker[j]

IsMarkerLine(line) ==
    \E k \in 1..(MarkerWindow - Len(QuotedMarker) + 1) : MarkerAt(line, k)

BodyLines(c) == SplitLines(call[c].response.body)

\* the index of the first marker line, 0 if there is none
FirstMarker(lines) ==
    IF \E k \in 1..Len(lines) : IsMarkerLine(lines[k])
    THEN CHOOSE k \in 1..Len(lines) :
            IsMarkerLine(lines[k]) /\ \A j \in 1..(k - 1) : ~IsMarkerLine(lines[j])
    ELSE 0

RECURSIVE Concat(_, _, _)
Concat(lines, m, e) ==
    IF m > e THEN <<>> ELSE lines[m] \o Concat(lines, m + 1, e)

IsJsonRegion(lines, m, e) == JsonLoads(JoinLines(SubSeq(lines, m, e))).ok

\* the line on which the JSON value that starts on line m ends, 0 if none
RegionEnd(lines, m) ==
    IF m # 0 /\ \E e \in m..Len(lines) : IsJsonRegion(lines, m, e)
    THEN CHOOSE e \in m..Len(lines) :
            IsJsonRegion(lines, m, e) /\ \A j \in m..(e - 1) : ~IsJsonRegion(lines, m, j)
    ELSE 0

\* the occurrences of char in a JSON text that lie outside its string literals
OutsideStrings(text, char) ==
    LET quotes == {k \in 1..Len(text) : text[k] = QUOTE /\ ~Escaped(text, k)}
    IN  Cardinality({k \in 1..Len(text) :
                        /\ text[k] = char
                        /\ Cardinality({j \in quotes : j < k}) % 2 = 0})

Scanned(c) == call[c].pc = "loads_resp"

(* C1: for a body of lines without the marker, then a marker line starting *)
(* a JSON region that ends at the end of a line, then trailing lines, the  *)
(* buffer handed to json.loads is exactly the region's lines.              *)
C1_FramesExactlyTheRegion ==
    \A c \in DOMAIN call :
        Scanned(c) =>
            LET lines == BodyLines(c)
                m == FirstMarker(lines)
                e == RegionEnd(lines, m)
            IN  e # 0 => call[c].framed.resp = Concat(lines, m, e)

(* C2: in a reply region that is valid JSON, brackets inside string        *)
(* literals are not counted, so the loop stops on the line on which the    *)
(* outer array closes, with the counts of the brackets outside strings.    *)
C2_QuotedBracketsNotCounted ==
    \A c \in DOMAIN call :
        Scanned(c) =>
            LET lines == BodyLines(c)
                m == FirstMarker(lines)
                e == RegionEnd(lines, m)
                region == Concat(lines, m, e)
            IN  e # 0 =>
                   /\ call[c].framed.last = e
                   /\ call[c].framed.square_bracket_counts =
                         <<OutsideStrings(region, "["), OutsideStrings(region, "]")>>

InTables(tag) ==
    tag \in LANGUAGES \/ tag \in DOMAIN SPECIAL_CASES \/ tag \in DOMAIN LANGCODES

InvalidTags(c) ==
    \/ ~InTables(Normalize(call[c].args.dest))
    \/ Normalize(call[c].args.src) # AUTO /\ ~InTables(Normalize(call[c].args.src))

(* C3: a call with a destination tag, or a source tag other than auto,     *)
(* that is in none of the three tables fails with an invalid-language      *)
(* error, and at no point of the call is a host picked, a payload encoded  *)
(* or a POST sent.                                                         *)
C3_ValidationPrecedesNetwork ==
    \A c \in DOMAIN call :
        call[c].pc # "idle" /\ InvalidTags(c) =>
            /\ call[c].pc = "raised"
            /\ call[c].err \in {"ValueError: Invalid Source Language",
                                "ValueError: Invalid Destination Language"}
            /\ call[c].posts = 0
            /\ call[c].url = ""
            /\ call[c].trans_info = <<>>
            /\ call[c].rpc = <<>>

C3_Witness ==
    \E c \in DOMAIN call :
        /\ call[c].pc = "raised"
        /\ call[c].err = "ValueError: Invalid Destination Language"
        /\ call[c].args.dest = <<"z", "z">>
        /\ call[c].posts = 0

NoMarker(c) ==
    /\ call[c].response.status # 0
    /\ \A k \in 1..Len(BodyLines(c)) : ~IsMarkerLine(BodyLines(c)[k])

(* C4: a body no line of which has the quoted marker in its first 30       *)
(* characters makes translate raise: the first json.loads fails, and no    *)
(* Translated is returned.                                                 *)
C4_NoMarkerFails ==
    \A c \in DOMAIN call :
        NoMarker(c) =>
            /\ call[c].pc \in {"text", "loads_resp", "raised"}
            /\ call[c].result = NoTranslated
            /\ call[c].read => call[c].framed.resp = <<>>
            /\ call[c].read /\ call[c].pc = "raised" => call[c].err = "JSONDecodeError"

C4_Witness ==
    \E c \in DOMAIN call :
        /\ NoMarker(c)
        /\ Len(call[c].response.body) > MarkerWindow
        /\ call[c].read
        /\ call[c].pc = "raised"
        /\ call[c].err = "JSONDecodeError"

(* C5: when the scan reaches the end of the body with the marker found and *)
(* the two counts different, translate raises and returns no Translated.   *)
C5_UnbalancedFails ==
    \A c \in DOMAIN call :
        /\ call[c].read
        /\ call[c].framed.token_found
        /\ call[c].framed.square_bracket_counts[1] # call[c].framed.square_bracket_counts[2]
        => call[c].pc # "returned"

IsCode(r) == r.ok /\ r.v.t = "str"

\* the source the result should carry
ExpectedSource(c) ==
    IF Normalize(call[c].args.src) = AUTO
    THEN IF IsCode(PyGetItem(call[c].parsed, 2)) THEN PyGetItem(call[c].parsed, 2).v
         ELSE IF IsCode(PyPath(call[c].parsed, <<0, 2>>))
         THEN PyPath(call[c].parsed, <<0, 2>>).v
         ELSE PyStr(AUTO)
    ELSE PyStr(ResolveSrc(Normalize(call[c].args.src)).s)

(* C6: with source auto the result's source is parsed[2] when present and  *)
(* a string, otherwise parsed[0][2] when present and a string, otherwise   *)
(* auto; with another source it is the resolved request source; detect     *)
(* reports the same value as lang.                                         *)
C6_SourceResolution ==
    \A c \in DOMAIN call :
        call[c].pc = "returned" =>
            /\ call[c].result.src = ExpectedSource(c)
            /\ call[c].detect => call[c].detected.lang = ExpectedSource(c)

\* the entries at parsed[1][0][0][5] and the flag at parsed[1][0][0][3]
EntriesOf(c) == PyIter(PyPath(call[c].parsed, <<1, 0, 0, 5>>).v).items
FlagOf(c) == PyPath(call[c].parsed, <<1, 0, 0, 3>>).v

RECURSIVE Offset(_, _, _)
\* where the text of entry k starts in the joined text, less one
Offset(entries, gap, k) ==
    IF k = 1 THEN 0
    ELSE Offset(entries, gap, k - 1) + Len(PyGetItem(entries[k - 1], 0).v.s) + gap

JoinedWith(c, gap) ==
    LET entries == EntriesOf(c)
        n == Len(entries)
        text == call[c].result.text
        Piece(k) == PyGetItem(entries[k], 0).v.s
    IN  /\ Len(text) = IF n = 0 THEN 0 ELSE Offset(entries, gap, n) + Len(Piece(n))
        /\ \A k \in 1..n :
              /\ SubSeq(text, Offset(entries, gap, k) + 1,
                        Offset(entries, gap, k) + Len(Piece(k))) = Piece(k)
              /\ k < n /\ gap = 1 =>
                    text[Offset(entries, gap, k) + Len(Piece(k)) + 1] = " "

(* C7: the translated text is the entries' texts in order, joined by one   *)
(* space when the flag is true and by nothing when it is false; parts has  *)
(* one part per entry in order, whose candidates are entry[1] when the     *)
(* entry has at least two elements and the empty list otherwise.           *)
C7_TextAssembly ==
    \A c \in DOMAIN call :
        call[c].pc = "returned" =>
            /\ FlagOf(c) = PyBool(TRUE) => JoinedWith(c, 1)
            /\ FlagOf(c) = PyBool(FALSE) => JoinedWith(c, 0)
            /\ Len(call[c].result.parts) = Len(EntriesOf(c))
            /\ \A k \in 1..Len(EntriesOf(c)) :
                  LET entry == EntriesOf(c)[k]
                      part == call[c].result.parts[k]
                  IN  /\ part.text = PyGetItem(entry, 0).v
                      /\ part.candidates =
                            IF PyLen(entry) >= 2 THEN PyGetItem(entry, 1).v
                            ELSE PyList(<<>>)

C7_Witness ==
    \E c \in DOMAIN call :
        /\ call[c].pc = "returned"
        /\ FlagOf(c) = PyBool(FALSE)
        /\ Len(call[c].result.parts) = 2
        /\ call[c].result.parts[1].candidates = PyList(<<>>)
        /\ call[c].result.parts[2].candidates # PyList(<<>>)
        /\ call[c].result.text = <<"H", "i", "y", "o">>

(* C8: a call sends at most one POST; when the status is not 200 and       *)
(* raise_exception is set, the call has raised the unexpected-status error *)
(* with the body unread, nothing framed or decoded, no result and no       *)
(* second POST.                                                            *)
C8_NoRetryFailFast ==
    \A c \in DOMAIN call :
        /\ call[c].posts <= 1
        /\ call[c].response.status \notin {0, OK} /\ raise_exception =>
              /\ call[c].pc = "raised"
              /\ call[c].err = "Exception: Unexpected status code"
              /\ call[c].posts = 1
              /\ ~call[c].read
              /\ call[c].framed = FrameStart
              /\ call[c].payload = <<>>
              /\ call[c].parsed = None
              /\ call[c].result = NoTranslated

C8_Witness ==
    \E c \in DOMAIN call :
        /\ raise_exception
        /\ call[c].response.status = 500
        /\ Len(call[c].response.body) > 0
        /\ call[c].pc = "raised"
        /\ call[c].posts = 1

\* two calls given the same arguments and the same response, at the same
\* point, whatever the other calls did in between
SameInputs(c, d) ==
    /\ call[c].pc = call[d].pc
    /\ call[c].args = call[d].args
    /\ call[c].detect = call[d].detect
    /\ call[c].response = call[d].response

\* a step is the step of one call and writes that call's locals only
OneCallSteps ==
    /\ \E c \in DOMAIN call : \A d \in DOMAIN call \ {c} : call'[d] = call[d]
    /\ raise_exception' = raise_exception
    /\ service_urls' = service_urls

(* C9: under every interleaving of the calls on one client, a call's       *)
(* encoded payload, framed buffer, parsed structure and result are those   *)
(* of any call with the same arguments and the same response, and a step   *)
(* of one call writes nothing another call holds or reads.                 *)
C9_CallsIndependent ==
    /\ [](\A c, d \in DOMAIN call : SameInputs(c, d) => call[c] = call[d])
    /\ [][OneCallSteps]_vars

C9_Witness ==
    \E c, d \in DOMAIN call :
        /\ call[c].pc = "returned"
        /\ call[d].pc = "loads_resp"
        /\ call[c].args.text # call[d].args.text
        /\ call[c].response.body # call[d].response.body
        /\ call[c].rpc # call[d].rpc

\* the marker line of the body counts no bracket
MarkerLineCountsNone(c) ==
    /\ FirstMarker(BodyLines(c)) # 0
    /\ ScanChars(BodyLines(c)[FirstMarker(BodyLines(c))], <<0, 0>>) = <<0, 0>>

(* C10, as claimed: the loop is left by break only after at least one      *)
(* bracket has been counted.                                               *)
C10_NeverStopsOnZero ==
    \A c \in DOMAIN call :
        call[c].read /\ call[c].framed.broke =>
            call[c].framed.square_bracket_counts[1] > 0

(* C10, amended: the balance test runs after every appended line, the      *)
(* marker line included; a marker line that counts no bracket ends the     *)
(* loop at once with 0 = 0, the buffer is that line alone and no later     *)
(* line is scanned or appended.                                            *)
C10_StopsOnZero ==
    \A c \in DOMAIN call :
        call[c].read /\ MarkerLineCountsNone(c) =>
            /\ call[c].framed.broke
            /\ call[c].framed.square_bracket_counts = <<0, 0>>
            /\ call[c].framed.last = FirstMarker(BodyLines(c))
            /\ call[c].framed.resp = BodyLines(c)[FirstMarker(BodyLines(c))]

C10_Witness ==
    \E c \in DOMAIN call :
        /\ call[c].read
        /\ MarkerLineCountsNone(c)
        /\ FirstMarker(BodyLines(c)) < Len(BodyLines(c))
        /\ call[c].framed.last = FirstMarker(BodyLines(c))
        /\ call[c].pc = "raised"

====
